---------------------------- MODULE Spec2Model ----------------------------
(***************************************************************************)
(* Model of src/app.py: the Streamlit script that loads homepass points,   *)
(* overlays a square grid on their extent, counts the points per cell and  *)
(* greedily merges cells into FAT areas of at most 16 homepasses.          *)
(*                                                                         *)
(* Coordinates are planar (after to_crs) and taken on an integer lattice   *)
(* on which one grid cell is GridSize = 2 units wide: odd offsets inside a *)
(* cell are interior points, even offsets lie on cell edges.  A point set  *)
(* is a multiset: a function from the occupied positions to the number of  *)
(* points at that position.                                                *)
(*                                                                         *)
(* Two specifications are given.  Spec is the whole script, from the       *)
(* uploaded file to the statistics table, with Streamlit's re-execution of *)
(* the script.  SpecFat is create_optimized_fat_areas on its own, entered  *)
(* with any frame of cells that carry a positive 'homepass' count.         *)
(***************************************************************************)
EXTENDS Integers, Sequences, FiniteSets, TLC

\* ----------------------------------------------------------------- bounds
MaxX == 4
MaxY == 4
MaxSites == 3
MaxRuns == 2
MaxCols == 4
MaxRows == MaxCols \div 2
MaxCells == 4

\* ------------------------------------------------------ program constants
\* grid_size (15.8 m) in lattice units
GridSize == 2
\* the capacity of a FAT area
Cap == 16
\* rescue radius in cell widths (3*15.8)
RescueCells == 3

\* numbers of points at one position of an uploaded file
MultValues == {1, Cap \div 2, Cap \div 2 + 1}
\* 'homepass' counts of the cells handed to create_optimized_fat_areas
HpValues == {1, Cap \div 2, Cap + 1}

VARIABLES
    pc,               \* the statement the script is at
    run,              \* number of the script execution (Streamlit reruns it)
    uploaded_file,    \* st.file_uploader's value
    message,          \* what st.error / st.success last showed
    gdf,              \* the point frame
    grid,             \* the cell frame: index -> [x, y, row, col, homepass]
    grid_with_hp,     \* the cells with homepass > 0
    visited, idx, current_fat, current_hp, queue, nearby,
    fat_areas, homepass_groups, fat_index,
    zip, stats,
    prev_groups       \* the grouping of the previous execution

fatVars == <<visited, idx, current_fat, current_hp, queue, nearby,
             fat_areas, homepass_groups, fat_index>>
outVars == <<zip, stats>>
vars == <<pc, run, uploaded_file, message, gdf, grid, grid_with_hp,
          fatVars, outVars, prev_groups>>

\* ---------------------------------------------------------------- helpers
EmptyBag == [p \in {} |-> 0]

RECURSIVE SumOver(_, _)
SumOver(f, S) ==
    IF S = {} THEN 0
    ELSE LET e == CHOOSE e \in S : TRUE IN f[e] + SumOver(f, S \ {e})

BagCount(b) == SumOver(b, DOMAIN b)

SeqSum(s) == SumOver(s, DOMAIN s)

MinOf(S) == CHOOSE m \in S : \A e \in S : m <= e
MaxOf(S) == CHOOSE m \in S : \A e \in S : m >= e

RECURSIVE SortedSeq(_)
SortedSeq(S) ==
    IF S = {} THEN <<>>
    ELSE LET m == MinOf(S) IN <<m>> \o SortedSeq(S \ {m})

RECURSIVE SubsetsUpTo(_, _)
SubsetsUpTo(S, k) ==
    IF k = 0 THEN {{}}
    ELSE LET prev == SubsetsUpTo(S, k - 1)
         IN prev \cup {s \cup {e} : s \in prev, e \in S}

Range(s) == {s[k] : k \in DOMAIN s}

\* math.ceil(d / grid_size) for d >= 0
CeilDiv(d, s) == (d + s - 1) \div s

\* int(round(num / den)): Python rounds an exact half to the even neighbour
PyRound(num, den) ==
    LET q == num \div den
        r == num % den
    IN IF 2 * r < den THEN q
       ELSE IF 2 * r > den THEN q + 1
       ELSE IF q % 2 = 0 THEN q ELSE q + 1

\* ------------------------------------------------- create_aligned_grids
\* the frame row of the box whose lower left corner is (x, y)
GridRow(x, y) ==
    [x |-> x, y |-> y,
     row |-> PyRound(2 * y + GridSize, 2 * GridSize),
     col |-> PyRound(2 * x + GridSize, 2 * GridSize),
     homepass |-> 0]

create_aligned_grids(pts) ==
    LET xs == {p[1] : p \in DOMAIN pts}
        ys == {p[2] : p \in DOMAIN pts}
        minx == MinOf(xs)
        miny == MinOf(ys)
        cols == CeilDiv(MaxOf(xs) - minx, GridSize)
        rows == CeilDiv(MaxOf(ys) - miny, GridSize)
    IN [n \in 0 .. (cols * rows - 1) |->
          GridRow(minx + (n \div rows) * GridSize, miny + (n % rows) * GridSize)]

\* ----------------------------------------------------- points per cell
\* shapely's contains: the point is in the interior of the box
Contains(cell, p) ==
    /\ cell.x < p[1] /\ p[1] < cell.x + GridSize
    /\ cell.y < p[2] /\ p[2] < cell.y + GridSize

PointsIn(cell, pts) ==
    SumOver(pts, {p \in DOMAIN pts : Contains(cell, p)})

\* rows of sjoin(grid, gdf, how='left') that carry the index of the cell:
\* one per matching point, and one (without a point) when nothing matches
JoinedRows(cell, pts) ==
    LET m == PointsIn(cell, pts) IN IF m = 0 THEN 1 ELSE m

CountHomepass(g, pts) ==
    [n \in DOMAIN g |-> [g[n] EXCEPT !.homepass = JoinedRows(g[n], pts)]]

FilterWithHp(g) ==
    LET keep == {n \in DOMAIN g : g[n].homepass > 0}
    IN [n \in keep |-> g[n]]

\* ---------------------------------------------------- find_adjacent_grids
Directions == << <<-1, 0>>, <<1, 0>>, <<0, -1>>, <<0, 1>> >>

LabelAt(g, r, c) == {n \in DOMAIN g : g[n].row = r /\ g[n].col = c}

find_adjacent_grids(g, current_idx, vis) ==
    LET cur == g[current_idx]
        cand(d) == LabelAt(g, cur.row + d[1], cur.col + d[2])
        first(d) == IF cand(d) = {} THEN -1 ELSE MinOf(cand(d))
        all == [k \in 1 .. 4 |-> first(Directions[k])]
        Keep(a) == a # -1 /\ a \notin vis /\ g[a].homepass > 0
    IN SelectSeq(all, Keep)

\* ------------------------------------------ create_optimized_fat_areas
\* a capacity test that is off by one
FitsOffByOne(hp, add) == hp + add <= Cap + 1

Fits(hp, add) == hp + add <= Cap

\* a radius test on each axis instead of on the distance
WithinRescueBox(a, b) ==
    /\ (a.x - b.x) * (a.x - b.x) <= (RescueCells * GridSize) * (RescueCells * GridSize)
    /\ (a.y - b.y) * (a.y - b.y) <= (RescueCells * GridSize) * (RescueCells * GridSize)

\* squared distance of the centroids of two cells against (3 * 15.8)^2
WithinRescueRadius(a, b) ==
    (a.x - b.x) * (a.x - b.x) + (a.y - b.y) * (a.y - b.y)
        <= (RescueCells * GridSize) * (RescueCells * GridSize)

\* nearby_grids: the rows, in frame order, within the radius of the seed
NearbyGrids(g, seed, vis) ==
    SortedSeq({n \in DOMAIN g : /\ WithinRescueRadius(g[n], g[seed])
                                /\ n \notin vis
                                /\ g[n].homepass > 0})

FatColor(hp) == IF hp >= Cap THEN "green" ELSE "red"

\* the corners of the boxes of a list of cells
Corners(g, cells) ==
    UNION {{<<g[n].x, g[n].y>>, <<g[n].x + GridSize, g[n].y>>,
            <<g[n].x, g[n].y + GridSize>>,
            <<g[n].x + GridSize, g[n].y + GridSize>>} : n \in Range(cells)}

Cross(a, b, c) ==
    (b[1] - a[1]) * (c[2] - a[2]) - (b[2] - a[2]) * (c[1] - a[1])

\* point.within(MultiPolygon(current_fat).convex_hull): p is in the interior
\* of the hull of the corners C, that is, no line through p and a corner has
\* every corner on its left or on it
WithinHull(p, C) ==
    \A a \in C \ {p} : \E c \in C : Cross(p, a, c) < 0

PointsWithin(pts, g, cells) ==
    LET C == Corners(g, cells)
        inside == {p \in DOMAIN pts : WithinHull(p, C)}
    IN [p \in inside |-> pts[p]]

\* the next index of sorted_indices that is not skipped: sort_values is
\* not stable, so any unvisited cell with the largest count may come first
SeedChoices(g, vis) ==
    LET left == DOMAIN g \ vis
    IN {n \in left : \A m \in left : g[n].homepass >= g[m].homepass}

GroupSets(fats) == {Range(fats[k].cells) : k \in DOMAIN fats}

FatInit ==
    /\ visited = {}
    /\ idx = -1
    /\ current_fat = <<>>
    /\ current_hp = 0
    /\ queue = <<>>
    /\ nearby = <<>>
    /\ fat_areas = <<>>
    /\ homepass_groups = <<>>
    /\ fat_index = 1

FatReset ==
    /\ visited' = {}
    /\ idx' = -1
    /\ current_fat' = <<>>
    /\ current_hp' = 0
    /\ queue' = <<>>
    /\ nearby' = <<>>
    /\ fat_areas' = <<>>
    /\ homepass_groups' = <<>>
    /\ fat_index' = 1

envVars == <<run, uploaded_file, message, gdf, grid, grid_with_hp,
             outVars, prev_groups>>

\* for idx in sorted_indices: a cell that is not skipped starts a FAT area
StartFat ==
    /\ pc = "fat_for"
    /\ \E n \in SeedChoices(grid_with_hp, visited) :
         /\ idx' = n
         /\ current_fat' = <<n>>
         /\ current_hp' = grid_with_hp[n].homepass
         /\ visited' = visited \cup {n}
         /\ queue' = find_adjacent_grids(grid_with_hp, n, visited \cup {n})
    /\ nearby' = <<>>
    /\ pc' = "fat_while"
    /\ UNCHANGED <<fat_areas, homepass_groups, fat_index, envVars>>

\* while queue and current_hp < 16: the popped cell was visited meanwhile
WhileVisited ==
    /\ pc = "fat_while"
    /\ queue # <<>> /\ current_hp < Cap
    /\ Head(queue) \in visited
    /\ queue' = Tail(queue)
    /\ UNCHANGED <<pc, visited, idx, current_fat, current_hp, nearby,
                   fat_areas, homepass_groups, fat_index, envVars>>

\* a merge that does not look at the visited set
WhileMergeVisited ==
    /\ pc = "fat_while"
    /\ queue # <<>> /\ current_hp < Cap
    /\ LET adj == Head(queue) IN
         /\ Fits(current_hp, grid_with_hp[adj].homepass)
         /\ current_fat' = Append(current_fat, adj)
         /\ current_hp' = current_hp + grid_with_hp[adj].homepass
         /\ visited' = visited \cup {adj}
         /\ queue' = Tail(queue) \o
                find_adjacent_grids(grid_with_hp, adj, visited \cup {adj})
    /\ UNCHANGED <<pc, idx, nearby, fat_areas, homepass_groups, fat_index,
                   envVars>>

\* the popped cell fits: it joins the area and its neighbours are queued
WhileMerge ==
    /\ pc = "fat_while"
    /\ queue # <<>> /\ current_hp < Cap
    /\ LET adj == Head(queue) IN
         /\ adj \notin visited
         /\ Fits(current_hp, grid_with_hp[adj].homepass)
         /\ current_fat' = Append(current_fat, adj)
         /\ current_hp' = current_hp + grid_with_hp[adj].homepass
         /\ visited' = visited \cup {adj}
         /\ queue' = Tail(queue) \o
                find_adjacent_grids(grid_with_hp, adj, visited \cup {adj})
    /\ UNCHANGED <<pc, idx, nearby, fat_areas, homepass_groups, fat_index,
                   envVars>>

\* the popped cell would exceed 16: it is dropped from the queue
WhileTooBig ==
    /\ pc = "fat_while"
    /\ queue # <<>> /\ current_hp < Cap
    /\ Head(queue) \notin visited
    /\ ~Fits(current_hp, grid_with_hp[Head(queue)].homepass)
    /\ queue' = Tail(queue)
    /\ UNCHANGED <<pc, visited, idx, current_fat, current_hp, nearby,
                   fat_areas, homepass_groups, fat_index, envVars>>

\* if current_hp < 16 and not queue: the cells near the seed are selected
RescueStart ==
    /\ pc = "fat_while"
    /\ queue = <<>> /\ current_hp < Cap
    /\ nearby' = NearbyGrids(grid_with_hp, idx, visited)
    /\ pc' = "fat_rescue"
    /\ UNCHANGED <<visited, idx, current_fat, current_hp, queue,
                   fat_areas, homepass_groups, fat_index, envVars>>

\* for _, row in nearby_grids.iterrows(): the row fits and is added
RescueMerge ==
    /\ pc = "fat_rescue"
    /\ nearby # <<>>
    /\ LET n == Head(nearby) IN
         /\ Fits(current_hp, grid_with_hp[n].homepass)
         /\ current_fat' = Append(current_fat, n)
         /\ current_hp' = current_hp + grid_with_hp[n].homepass
         /\ visited' = visited \cup {n}
    /\ nearby' = Tail(nearby)
    /\ UNCHANGED <<pc, idx, queue, fat_areas, homepass_groups, fat_index,
                   envVars>>

\* the row does not fit and is passed over
RescueTooBig ==
    /\ pc = "fat_rescue"
    /\ nearby # <<>>
    /\ ~Fits(current_hp, grid_with_hp[Head(nearby)].homepass)
    /\ nearby' = Tail(nearby)
    /\ UNCHANGED <<pc, visited, idx, current_fat, current_hp, queue,
                   fat_areas, homepass_groups, fat_index, envVars>>

\* the FAT area is recorded with its hull, total, label and colour, and the
\* points within the hull become its homepass group
NewFat(cells, hp, label) ==
    [cells |-> cells, homepass |-> hp, label |-> label, color |-> FatColor(hp)]

MakeFat ==
    /\ \/ pc = "fat_while" /\ current_hp >= Cap
       \/ pc = "fat_rescue" /\ nearby = <<>>
    /\ fat_areas' = Append(fat_areas, NewFat(current_fat, current_hp, fat_index))
    /\ homepass_groups' =
           Append(homepass_groups, PointsWithin(gdf, grid_with_hp, current_fat))
    /\ fat_index' = fat_index + 1
    /\ pc' = "fat_for"
    /\ UNCHANGED <<visited, idx, current_fat, current_hp, queue, nearby,
                   envVars>>

\* sorted_indices is exhausted: the frames are returned to the caller
FatReturn ==
    /\ pc = "fat_for"
    /\ SeedChoices(grid_with_hp, visited) = {}
    /\ pc' = "zip"
    /\ UNCHANGED <<fatVars, envVars>>

FatStep ==
    \/ StartFat
    \/ WhileVisited
    \/ WhileMerge
    \/ WhileTooBig
    \/ RescueStart
    \/ RescueMerge
    \/ RescueTooBig
    \/ MakeFat
    \/ FatReturn

\* --------------------------------------------------------------- the script
Lattice == (0 .. MaxX) \X (0 .. MaxY)

\* the point multisets a file may hold (load_kml keeps the Point features)
PointSets ==
    UNION {[S -> MultValues] : S \in SubsetsUpTo(Lattice, MaxSites)}

NoFile == [present |-> FALSE, readable |-> FALSE, points |-> EmptyBag]
Unreadable == [present |-> TRUE, readable |-> FALSE, points |-> EmptyBag]

Uploads ==
    {NoFile, Unreadable} \cup
    {[present |-> TRUE, readable |-> TRUE, points |-> b] : b \in PointSets}

NoZip == [fat_kml |-> <<>>, homepass_kml |-> <<>>]

Init ==
    /\ pc = "start"
    /\ run = 1
    /\ uploaded_file \in Uploads
    /\ message = "none"
    /\ gdf = EmptyBag
    /\ grid = <<>>
    /\ grid_with_hp = <<>>
    /\ FatInit
    /\ zip = NoZip
    /\ stats = <<>>
    /\ prev_groups = {}

\* if uploaded_file: nothing was uploaded and the script ends
NoUpload ==
    /\ pc = "start"
    /\ ~uploaded_file.present
    /\ pc' = "idle"
    /\ UNCHANGED <<run, uploaded_file, message, gdf, grid, grid_with_hp,
                   fatVars, outVars, prev_groups>>

\* load_kml failed (None) or gave no point: st.error and st.stop
LoadStop ==
    /\ pc = "start"
    /\ uploaded_file.present
    /\ ~uploaded_file.readable \/ uploaded_file.points = EmptyBag
    /\ message' = "no_valid_points"
    /\ pc' = "stopped"
    /\ UNCHANGED <<run, uploaded_file, gdf, grid, grid_with_hp,
                   fatVars, outVars, prev_groups>>

\* load_kml gave points: st.success
LoadPoints ==
    /\ pc = "start"
    /\ uploaded_file.present
    /\ uploaded_file.readable /\ uploaded_file.points # EmptyBag
    /\ gdf' = uploaded_file.points
    /\ message' = "loaded"
    /\ pc' = "grid"
    /\ UNCHANGED <<run, uploaded_file, grid, grid_with_hp,
                   fatVars, outVars, prev_groups>>

\* grid = create_aligned_grids(gdf)
CreateGrid ==
    /\ pc = "grid"
    /\ grid' = create_aligned_grids(gdf)
    /\ pc' = "count"
    /\ UNCHANGED <<run, uploaded_file, message, gdf, grid_with_hp,
                   fatVars, outVars, prev_groups>>

\* the points per cell are counted and no cell has a count: st.error, st.stop
CountStop ==
    /\ pc = "count"
    /\ grid' = CountHomepass(grid, gdf)
    /\ grid_with_hp' = FilterWithHp(grid')
    /\ DOMAIN grid_with_hp' = {}
    /\ message' = "no_points_in_grid"
    /\ pc' = "stopped"
    /\ UNCHANGED <<run, uploaded_file, gdf, fatVars, outVars, prev_groups>>

\* the points per cell are counted and create_optimized_fat_areas is called
CountCall ==
    /\ pc = "count"
    /\ grid' = CountHomepass(grid, gdf)
    /\ grid_with_hp' = FilterWithHp(grid')
    /\ DOMAIN grid_with_hp' # {}
    /\ pc' = "fat_for"
    /\ UNCHANGED <<run, uploaded_file, message, gdf, fatVars, outVars,
                   prev_groups>>

\* the rectangle that bounds the hull of a FAT area
HullWidth(g, cells) ==
    LET xs == {c[1] : c \in Corners(g, cells)} IN MaxOf(xs) - MinOf(xs)
HullHeight(g, cells) ==
    LET ys == {c[2] : c \in Corners(g, cells)} IN MaxOf(ys) - MinOf(ys)

\* fat_areas.kml holds a polygon per FAT area, homepass.kml a point per
\* member of its group
WriteZip ==
    /\ pc = "zip"
    /\ zip' = [fat_kml |->
                 [k \in DOMAIN fat_areas |->
                    [name |-> fat_areas[k].label,
                     color |-> fat_areas[k].color,
                     description |-> fat_areas[k].homepass]],
               homepass_kml |-> homepass_groups]
    /\ pc' = "stats"
    /\ UNCHANGED <<run, uploaded_file, message, gdf, grid, grid_with_hp,
                   fatVars, stats, prev_groups>>

\* the statistics table: a row per FAT area
ShowStats ==
    /\ pc = "stats"
    /\ stats' = [k \in DOMAIN fat_areas |->
                   [fat_area |-> fat_areas[k].label,
                    jumlah_hp |-> fat_areas[k].homepass,
                    status |-> fat_areas[k].color,
                    lebar |-> HullWidth(grid_with_hp, fat_areas[k].cells),
                    tinggi |-> HullHeight(grid_with_hp, fat_areas[k].cells),
                    grid_terpakai |-> BagCount(homepass_groups[fat_areas[k].label])]]
    /\ pc' = "done"
    /\ UNCHANGED <<run, uploaded_file, message, gdf, grid, grid_with_hp,
                   fatVars, zip, prev_groups>>

\* Streamlit executes the script again from the top with the same upload
Rerun ==
    /\ pc \in {"done", "stopped"}
    /\ run < MaxRuns
    /\ run' = run + 1
    /\ prev_groups' = GroupSets(fat_areas)
    /\ pc' = "start"
    /\ message' = "none"
    /\ gdf' = EmptyBag
    /\ grid' = <<>>
    /\ grid_with_hp' = <<>>
    /\ FatReset
    /\ zip' = NoZip
    /\ stats' = <<>>
    /\ UNCHANGED uploaded_file

Next ==
    \/ NoUpload
    \/ LoadStop
    \/ LoadPoints
    \/ CreateGrid
    \/ CountStop
    \/ CountCall
    \/ StartFat
    \/ WhileVisited
    \/ WhileMerge
    \/ WhileTooBig
    \/ RescueStart
    \/ RescueMerge
    \/ RescueTooBig
    \/ MakeFat
    \/ FatReturn
    \/ WriteZip
    \/ ShowStats
    \/ Rerun

Spec == Init /\ [][Next]_vars

\* --------------------------- create_optimized_fat_areas on its own frames
FatCells == 0 .. (MaxCols * MaxRows - 1)

\* a frame of cells with positive counts, labelled as create_aligned_grids
\* labels the cells of an extent whose corner is (1, 1)
FatFrame(h) ==
    [n \in DOMAIN h |->
       [GridRow(1 + (n \div MaxRows) * GridSize, 1 + (n % MaxRows) * GridSize)
          EXCEPT !.homepass = h[n]]]

FatFrames ==
    {FatFrame(h) : h \in UNION {[S -> HpValues] :
                                  S \in SubsetsUpTo(FatCells, MaxCells) \ {{}}}}

Centroid(cell) == <<cell.x + GridSize \div 2, cell.y + GridSize \div 2>>

\* the points counted in the cells, at the centroids
CentroidPoints(g) ==
    [p \in {Centroid(g[n]) : n \in DOMAIN g} |->
       g[CHOOSE n \in DOMAIN g : Centroid(g[n]) = p].homepass]

InitFat ==
    /\ pc = "fat_for"
    /\ run = 1
    /\ grid_with_hp \in FatFrames
    /\ grid = grid_with_hp
    /\ gdf = CentroidPoints(grid_with_hp)
    /\ uploaded_file = [present |-> TRUE, readable |-> TRUE, points |-> gdf]
    /\ message = "loaded"
    /\ FatInit
    /\ zip = NoZip
    /\ stats = <<>>
    /\ prev_groups = {}

SpecFat == InitFat /\ [][FatStep]_vars

FairSpecFat == SpecFat /\ WF_vars(FatStep)

\* ------------------------------------------------------------------ claims
HpOf(n) == grid_with_hp[n].homepass

\* row +-1 in the same col, or col +-1 in the same row
Adjacent4(a, b) ==
    \/ a.col = b.col /\ (a.row = b.row + 1 \/ a.row = b.row - 1)
    \/ a.row = b.row /\ (a.col = b.col + 1 \/ a.col = b.col - 1)

\* the squared distance of the centroids of two cells, in squared cell widths
\* times GridSize^2
CentroidDist2(a, b) ==
    (a.x - b.x) * (a.x - b.x) + (a.y - b.y) * (a.y - b.y)

Returned == pc = "zip"

Building == pc \in {"fat_while", "fat_rescue"}

LastFat == fat_areas[Len(fat_areas)]

\* C1: every FAT area that create_optimized_fat_areas emits records a total
\* ('homepass') of at most the capacity 16, also when its seed cell is its
\* only member.
C1_TotalWithinCap ==
    \A k \in DOMAIN fat_areas : fat_areas[k].homepass <= Cap

\* C3: when a FAT area is recorded with colour 'red', its total is below 16
\* and no unvisited cell with a positive count is 4-adjacent to one of its
\* cells (those of the radius step included) and would fit within 16.
C3_RedHasNoMergeLeft ==
    (pc = "fat_for" /\ fat_areas # <<>> /\ LastFat.color = "red") =>
        /\ LastFat.homepass < Cap
        /\ ~\E n \in DOMAIN grid_with_hp \ visited :
               /\ HpOf(n) > 0
               /\ LastFat.homepass + HpOf(n) <= Cap
               /\ \E m \in Range(LastFat.cells) :
                      Adjacent4(grid_with_hp[n], grid_with_hp[m])

\* C5: a second execution on the same cells and counts returns the same
\* groups (the same cells per group) as the first, however the seed sort
\* orders the cells of equal count.
C5_SameGroupsOnRerun ==
    (run = 2 /\ Returned) => GroupSets(fat_areas) = prev_groups

\* a cell below 16 with no 4-adjacent cell in the frame and every other cell
\* of the frame more than 3 cell widths away
Isolated(n) ==
    /\ HpOf(n) < Cap
    /\ \A m \in DOMAIN grid_with_hp \ {n} :
         /\ ~Adjacent4(grid_with_hp[n], grid_with_hp[m])
         /\ CentroidDist2(grid_with_hp[n], grid_with_hp[m])
                > RescueCells * RescueCells * GridSize * GridSize

\* C6: a cell below 16 that has no 4-adjacent cell and is more than 3 cell
\* widths from every other cell is never put into a FAT area with another
\* cell, and on return it is a FAT area of its own, coloured 'red'.
C6_IsolatedCellAlone ==
    \A n \in DOMAIN grid_with_hp :
        Isolated(n) =>
            /\ \A k \in DOMAIN fat_areas :
                   n \in Range(fat_areas[k].cells) =>
                       /\ fat_areas[k].cells = <<n>>
                       /\ fat_areas[k].color = "red"
            /\ (Building /\ n \in Range(current_fat)) => current_fat = <<n>>
            /\ Returned => \E k \in DOMAIN fat_areas : fat_areas[k].cells = <<n>>

\* the function returned for a frame with an isolated cell and another cell,
\* whose count alone would have fitted beside the isolated one
C6_Witness ==
    /\ Returned
    /\ \E n \in DOMAIN grid_with_hp :
          /\ Isolated(n)
          /\ \E m \in DOMAIN grid_with_hp \ {n} : HpOf(n) + HpOf(m) <= Cap
          /\ \E k \in DOMAIN fat_areas : fat_areas[k].cells = <<n>>

\* the number of times a cell occurs in the recorded FAT areas
Occurrences(n) ==
    SeqSum([k \in DOMAIN fat_areas |->
              Cardinality({j \in DOMAIN fat_areas[k].cells :
                             fat_areas[k].cells[j] = n})])

C8_Partition ==
    /\ \A n \in DOMAIN grid_with_hp : Occurrences(n) <= 1
    /\ Returned =>
         /\ visited = DOMAIN grid_with_hp
         /\ \A n \in DOMAIN grid_with_hp : Occurrences(n) = 1
         /\ SeqSum([k \in DOMAIN fat_areas |-> fat_areas[k].homepass])
                = SeqSum([n \in DOMAIN grid_with_hp |-> HpOf(n)])

\* C8: the merge loop of create_optimized_fat_areas terminates; no cell is
\* ever in two FAT areas, and on return the visited set is the set of the
\* cells of the frame, every cell is in exactly one FAT area and the totals
\* of the FAT areas sum to the sum of the counts of the cells.
C8_TerminatesWithPartition ==
    <>Returned /\ []C8_Partition

\* returned with a FAT area of several cells and another FAT area
C8_Witness ==
    /\ Returned
    /\ Len(fat_areas) >= 2
    /\ \E k \in DOMAIN fat_areas : Len(fat_areas[k].cells) >= 2

\* the step adds a cell other than the seed to the FAT area under construction
AddsCell ==
    /\ Building
    /\ Len(current_fat') = Len(current_fat) + 1

AddedCell == current_fat'[Len(current_fat')]

\* C9: a cell other than the seed is added only when it is unvisited, has a
\* positive count, fits within 16, and is 4-adjacent to a cell of the FAT
\* area or, with the queue empty and the total below 16, within 3 cell widths
\* of the seed.
C9_AddedCellsAreLegal ==
    [][AddsCell =>
         /\ AddedCell \in DOMAIN grid_with_hp
         /\ AddedCell \notin visited
         /\ HpOf(AddedCell) > 0
         /\ current_hp + HpOf(AddedCell) <= Cap
         /\ \/ \E m \in Range(current_fat) :
                   Adjacent4(grid_with_hp[AddedCell], grid_with_hp[m])
            \/ /\ queue = <<>>
               /\ current_hp < Cap
               /\ CentroidDist2(grid_with_hp[AddedCell],
                                grid_with_hp[current_fat[1]])
                      <= RescueCells * RescueCells * GridSize * GridSize]_vars

\* a FAT area that holds a cell 4-adjacent to another of its cells and a cell
\* 4-adjacent to none of them
C9_Witness ==
    \E k \in DOMAIN fat_areas :
        LET cs == Range(fat_areas[k].cells) IN
        /\ \E a \in cs : \E b \in cs :
               Adjacent4(grid_with_hp[a], grid_with_hp[b])
        /\ \E a \in cs : \A b \in cs \ {a} :
               ~Adjacent4(grid_with_hp[a], grid_with_hp[b])

\* the script is past the count of the points per cell
Counted ==
    \/ pc \in {"fat_for", "fat_while", "fat_rescue", "zip", "stats", "done"}
    \/ pc = "stopped" /\ message = "no_points_in_grid"

\* the points at col floor((x - min_x)/s) and row floor((y - min_y)/s)
FloorCellPoints(cell) ==
    SumOver(gdf, {p \in DOMAIN gdf :
                    /\ cell.x <= p[1] /\ p[1] < cell.x + GridSize
                    /\ cell.y <= p[2] /\ p[2] < cell.y + GridSize})

\* C2: after a complete execution every input point is in the homepass group
\* of exactly one FAT area.
C2_EveryPointInOneGroup ==
    pc \in {"zip", "stats", "done"} =>
        \A p \in DOMAIN gdf :
            Cardinality({k \in DOMAIN homepass_groups :
                           p \in DOMAIN homepass_groups[k]}) = 1

\* C4: every input point is counted in the cell at col floor((x - min_x)/s),
\* row floor((y - min_y)/s), so the counts of the cells sum to the number of
\* input points.
C4_EveryPointCounted ==
    Counted =>
        /\ \A n \in DOMAIN grid : grid[n].homepass = FloorCellPoints(grid[n])
        /\ SeqSum([n \in DOMAIN grid |-> grid[n].homepass]) = BagCount(gdf)

\* C7: when no point was loaded or no point lies inside a cell, the script
\* stops with an error before create_optimized_fat_areas is called and
\* produces no FAT area, ZIP or statistic.
C7_NoPointInCellStops ==
    /\ pc \in {"fat_for", "fat_while", "fat_rescue", "zip", "stats", "done"} =>
           \E n \in DOMAIN grid : \E p \in DOMAIN gdf : Contains(grid[n], p)
    /\ pc = "stopped" =>
           /\ message \in {"no_valid_points", "no_points_in_grid"}
           /\ fat_areas = <<>> /\ zip = NoZip /\ stats = <<>>

\* C10: the total recorded for a FAT area equals the number of points in its
\* homepass group.
C10_TotalIsGroupSize ==
    \A k \in DOMAIN fat_areas :
        fat_areas[k].homepass = BagCount(homepass_groups[k])

=============================================================================
